---------------------------- MODULE Spec2Model ----------------------------
(***************************************************************************)
(* Model of functions/index.js: the ssml tag function, the catalog of SSML *)
(* examples built with it, the composed response texts, and the three      *)
(* Dialogflow action handlers reached through the ssmlExamples entry point.*)
(*                                                                         *)
(* JavaScript strings are TLA+ strings (Len, \o, SubSeq, Head and Tail act *)
(* on them character by character).  A JavaScript value that need not be a *)
(* string is a record [type, value].                                       *)
(***************************************************************************)
EXTENDS Integers, Sequences, FiniteSets

(***************************************************************************)
(* JavaScript values                                                       *)
(***************************************************************************)
Str(s) == [type |-> "string", value |-> s]
Undefined == [type |-> "undefined", value |-> ""]
Null == [type |-> "null", value |-> ""]
Function(name) == [type |-> "function", value |-> name]

\* Variant of Truthy that tests only for an absent value, as
\* "element === undefined || element === null" would: C3 fails on it.
TruthyUnlessAbsent(v) == v.type \notin {"undefined", "null"}

\* ToBoolean: undefined, null and the empty string are falsy; a non-empty
\* string and a function are truthy.
Truthy(v) ==
    \/ v.type = "function"
    \/ v.type = "string" /\ v.value # ""

\* ToString, as a template literal's ${} and a property key apply it.
JsToString(v) ==
    CASE v.type = "string" -> v.value
      [] v.type = "undefined" -> "undefined"
      [] v.type = "null" -> "null"
      [] OTHER -> "function " \o v.value \o "() { [native code] }"

(***************************************************************************)
(* String.prototype methods used by ssml                                   *)
(***************************************************************************)
\* The characters of \s (and of trim) that the model's strings contain.
WhiteSpace == {" ", "\n", "\t"}

\* The character of s at index i (from 1), as a one-character string.
charAt(s, i) == SubSeq(s, i, i)

\* The concatenation of the strings parts[lo], ..., parts[hi].
RECURSIVE concat(_, _, _)
concat(parts, lo, hi) ==
    IF lo > hi THEN ""
    ELSE IF lo = hi THEN parts[lo]
    ELSE LET mid == (lo + hi) \div 2
         IN  concat(parts, lo, mid) \o concat(parts, mid + 1, hi)

\* pat occurs in s at index i.
occursAt(s, pat, i) ==
    /\ i >= 1
    /\ i + Len(pat) - 1 <= Len(s)
    /\ SubSeq(s, i, i + Len(pat) - 1) = pat

\* s.replace(/pat/g, rep) for a literal pattern that cannot overlap itself
\* (each of ssml's: &, <, >, ", " <" and "> "), so that the left-to-right
\* scan matches every occurrence.  Each character of s contributes rep where
\* a match starts, nothing inside a match, and itself elsewhere.
replaceAll(s, pat, rep) ==
    LET piece(i) ==
            IF occursAt(s, pat, i) THEN rep
            ELSE IF \E j \in (i - Len(pat) + 1)..(i - 1) : occursAt(s, pat, j)
                 THEN ""
                 ELSE charAt(s, i)
    IN  concat([i \in 1..Len(s) |-> piece(i)], 1, Len(s))

\* s.trim(): s from its first to its last character that is not whitespace.
trim(s) ==
    LET keep == {i \in 1..Len(s) : charAt(s, i) \notin WhiteSpace}
    IN  IF keep = {} THEN ""
        ELSE SubSeq(s, CHOOSE i \in keep : \A j \in keep : i <= j,
                       CHOOSE i \in keep : \A j \in keep : i >= j)

\* s.replace(/\s+/g, ' '): each maximal run of whitespace becomes one space.
\* The first character of a run contributes the space, the others nothing.
collapseWhiteSpace(s) ==
    LET piece(i) ==
            IF charAt(s, i) \notin WhiteSpace THEN charAt(s, i)
            ELSE IF i > 1 /\ charAt(s, i - 1) \in WhiteSpace THEN ""
                 ELSE " "
    IN  concat([i \in 1..Len(s) |-> piece(i)], 1, Len(s))

(***************************************************************************)
(* ssml: the tag function                                                  *)
(***************************************************************************)
\* A call's outcome: the string returned, or the TypeError thrown.
Returned(s) == [threw |-> FALSE, value |-> s]
TypeError == [threw |-> TRUE, value |-> ""]

\* Variant of escapeInput with the & replacement moved last, which escapes
\* the & of the entities made before it: C5 fails on it.
escapeInputAmpersandLast(s) ==
    replaceAll(replaceAll(replaceAll(replaceAll(s,
        "<", "&lt;"), ">", "&gt;"), "\"", "&quot;"), "&", "&amp;")

\* inputs[i - 1].replace(/&/g, ...).replace(/</g, ...).replace(/>/g, ...)
\*              .replace(/"/g, ...)
escapeInput(s) ==
    replaceAll(replaceAll(replaceAll(replaceAll(s,
        "&", "&amp;"), "<", "&lt;"), ">", "&gt;"), "\"", "&quot;")

\* inputs[j] of the rest-parameter array: undefined past its end.
inputAt(inputs, j) == IF j \in DOMAIN inputs THEN inputs[j] ELSE Undefined

\* template.reduce((out, str, i) => i ? out + escaped + str : str) with no
\* initial value: out starts as template[0] and the callback runs for
\* i = 1 .. length - 1.  Calling .replace on a value that is not a string
\* throws, and the throw leaves reduce.
RECURSIVE reduceFrom(_, _, _, _)
reduceFrom(template, inputs, i, out) ==
    IF i > Len(template) THEN Returned(out)
    ELSE IF inputAt(inputs, i - 1).type # "string" THEN TypeError
    ELSE reduceFrom(template, inputs, i + 1,
                    out \o escapeInput(inputAt(inputs, i - 1).value) \o template[i])

\* Variant of normalize with /\s/g in place of /\s+/g, which turns each
\* whitespace character into a space of its own: C8 fails on it.
normalizeEachWhiteSpace(s) ==
    LET trimmed == trim(s)
        spaced == [i \in 1..Len(trimmed) |->
                      IF charAt(trimmed, i) \in WhiteSpace THEN " "
                      ELSE charAt(trimmed, i)]
    IN  replaceAll(replaceAll(concat(spaced, 1, Len(spaced)), " <", "<"), "> ", ">")

\* .trim().replace(/\s+/g, ' ').replace(/ </g, '<').replace(/> /g, '>')
normalize(s) ==
    replaceAll(replaceAll(collapseWhiteSpace(trim(s)), " <", "<"), "> ", ">")

\* ssml(template, ...inputs); template is a non-empty sequence of strings
\* (a tagged template always passes at least one), indexed from 1 here.
ssml(template, inputs) ==
    LET reduced == reduceFrom(template, inputs, 2, template[1])
    IN  IF reduced.threw THEN TypeError ELSE Returned(normalize(reduced.value))

(***************************************************************************)
(* The templates of the examples object, as written in the source          *)
(***************************************************************************)
\* src/functions/index.js:55-60
template_break ==
    "\n" \o
    "    <speak>\n" \o
    "      Step 1, take a deep breath. <break time=\"200ms\" strength=\"weak\"/>\n" \o
    "      Step 2, exhale.\n" \o
    "    </speak>\n" \o
    "  "

\* src/functions/index.js:61-86
template_say_as ==
    "\n" \o
    "    <speak>\n" \o
    "      This interprets \"12345\" normally.\n" \o
    "      This interprets \"<say-as interpret-as=\"cardinal\">12345</say-as>\" as a cardinal.\n" \o
    "      This interprets \"1\" normally.\n" \o
    "      This interprets \"<say-as interpret-as=\"ordinal\">1</say-as>\" as an ordinal.\n" \o
    "      This interprets \"can\" normally.\n" \o
    "      This interprets \"<say-as interpret-as=\"characters\">can</say-as>\" as characters.\n" \o
    "      This interprets \"5+1/2\" normally.\n" \o
    "      This interprets \"<say-as interpret-as=\"fraction\">5+1/2</say-as>\" as a fraction.\n" \o
    "      This interprets \"censored\" normally.\n" \o
    "      This interprets \"<say-as interpret-as=\"expletive\">censored</say-as>\" as an expletive.\n" \o
    "      This interprets \"10 foot\" normally.\n" \o
    "      This interprets \"<say-as interpret-as=\"unit\">10 foot</say-as>\" as a unit.\n" \o
    "      This interprets \"abcdefg\" normally.\n" \o
    "      This interprets \"<say-as interpret-as=\"verbatim\">abcdefg</say-as>\" as verbatim.\n" \o
    "      This interprets \"1960-09-10\" normally.\n" \o
    "      This interprets \"<say-as interpret-as=\"date\" format=\"ymd\">1960-09-10</say-as>\" as a date.\n" \o
    "      This interprets \"2:30pm\" normally.\n" \o
    "      This interprets \"<say-as interpret-as=\"time\" format=\"hms12\">2:30pm</say-as>\" as a time.\n" \o
    "      This interprets \"(781) 771-7777\" normally.\n" \o
    "      This interprets \"<say-as interpret-as=\"telephone\" format=\"1\">\n" \o
    "        (781) 771-7777\n" \o
    "      </say-as>\" as a telephone number.\n" \o
    "    </speak>\n" \o
    "  "

\* src/functions/index.js:87-94
template_audio ==
    "\n" \o
    "    <speak>\n" \o
    "      <audio src=\"https://actions.google.com/sounds/v1/animals/cat_purr_close.ogg\">\n" \o
    "        <desc>Sound of a cat purring.</desc>\n" \o
    "        Audio resource for a cat purring failed to load.\n" \o
    "      </audio>\n" \o
    "    </speak>\n" \o
    "  "

\* src/functions/index.js:95-102
template_paragraph ==
    "\n" \o
    "    <speak>\n" \o
    "      <p>\n" \o
    "        <s>This is sentence one.</s>\n" \o
    "        <s>This is sentence two.</s>\n" \o
    "      </p>\n" \o
    "    </speak>\n" \o
    "  "

\* src/functions/index.js:103-108
template_sub ==
    "\n" \o
    "    <speak>\n" \o
    "      This is speaking \"W3C\" normally.\n" \o
    "      This is speaking \"<sub alias=\"World Wide Web Consortium\">W3C</sub>\" using the sub tag.\n" \o
    "    </speak>\n" \o
    "  "

\* src/functions/index.js:109-125
template_prosody ==
    "\n" \o
    "    <speak>\n" \o
    "      <prosody rate=\"100%\" pitch=\"-2st\">\n" \o
    "        My name is <prosody rate=\"slow\">Wonder Woman</prosody>.\n" \o
    "      </prosody>\n" \o
    "      <break time=\"0.5s\" />\n" \o
    "      <prosody pitch=\"+20st\">Hi, my name is lowly worm.</prosody>\n" \o
    "      <prosody pitch=\"-10st\">Hi, my name is huckleberry cat.</prosody>\n" \o
    "      <break time=\"1.5s\" />Was that fun?\n" \o
    "      <prosody rate=\"x-fast\">Hi I'm speaking fast.</prosody>\n" \o
    "      <prosody rate=\"x-slow\">I'm speaking slow.</prosody>\n" \o
    "      <prosody volume=\"soft\">I'm speaking softly.</prosody>\n" \o
    "      <prosody volume=\"x-loud\">I'm speaking loud</prosody>\n" \o
    "      <prosody pitch=\"+20st\">I'm speaking high.</prosody>\n" \o
    "      <prosody pitch=\"-20st\">I'm speaking deep.</prosody>\n" \o
    "    </speak>\n" \o
    "  "

\* src/functions/index.js:126-136
template_emphasis ==
    "\n" \o
    "    <speak>\n" \o
    "      I would like to emphasize the importance of SSML.\n" \o
    "      I told you to pick up those toys an hour ago.\n" \o
    "      <emphasis>I told you to pick up those toys an hour ago.</emphasis>\n" \o
    "      <emphasis level=\"strong\">I told you to pick up those toys an hour ago.</emphasis>\n" \o
    "      <emphasis level=\"moderate\">I told you to pick up those toys an hour ago.</emphasis>\n" \o
    "      <emphasis level=\"reduced\">I told you to pick up those toys an hour ago.</emphasis>\n" \o
    "      <emphasis level=\"none\">I told you to pick up those toys an hour ago.</emphasis>\n" \o
    "    </speak>\n" \o
    "  "

\* src/functions/index.js:137-152
template_speed ==
    "\n" \o
    "    <speak>\n" \o
    "      This is without prosody.\n" \o
    "      <prosody rate=\"100%\">This is speaking at 100% rate.</prosody>\n" \o
    "      <prosody rate=\"150%\">This is speaking at 150% rate.</prosody>\n" \o
    "      <prosody rate=\"foo\">This is speaking at normal rate.</prosody>\n" \o
    "      <prosody rate=\"200%\">This is speaking at 200% rate.</prosody>\n" \o
    "      <prosody rate=\"medium\">This is speaking at medium rate.</prosody>\n" \o
    "      <prosody rate=\"300%\">This is speaking at 300% rate.</prosody>\n" \o
    "      <prosody rate=\"default\">This is speaking at default rate.</prosody>\n" \o
    "      <prosody rate=\"75%\">This is speaking at 75% rate.</prosody>\n" \o
    "      <prosody rate=\"50%\">This is speaking at 50% rate.</prosody>\n" \o
    "      <prosody rate=\"25%\">This is speaking at 25% rate.</prosody>\n" \o
    "      <prosody rate=\"10%\">This is speaking at 10% rate.</prosody>\n" \o
    "    </speak>\n" \o
    "  "

\* src/functions/index.js:153-169
template_volume ==
    "\n" \o
    "    <speak>\n" \o
    "      This is without prosody.\n" \o
    "      <prosody volume=\"+5dB\">This is speaking at +5dB volume.</prosody>\n" \o
    "      <prosody volume=\"100%\">This is speaking at 100% volume.</prosody>\n" \o
    "      <prosody volume=\"loud\">This is speaking at loud volume.</prosody>\n" \o
    "      <prosody volume=\"foo\">This is speaking at normal volume.</prosody>\n" \o
    "      <prosody volume=\"+10dB\">This is speaking at +10dB volume.</prosody>\n" \o
    "      <prosody volume=\"medium\">This is speaking at medium volume.</prosody>\n" \o
    "      <prosody volume=\"x-loud\">This is speaking at x-loud volume.</prosody>\n" \o
    "      <prosody volume=\"default\">This is speaking at default volume.</prosody>\n" \o
    "      <prosody volume=\"-5dB\">This is speaking at -5dB volume.</prosody>\n" \o
    "      <prosody volume=\"-10dB\">This is speaking at -10dB volume.</prosody>\n" \o
    "      <prosody volume=\"soft\">This is speaking at soft volume.</prosody>\n" \o
    "      <prosody volume=\"x-soft\">This is speaking at x-soft volume.</prosody>\n" \o
    "    </speak>\n" \o
    "  "

\* src/functions/index.js:170-187
template_pitch ==
    "\n" \o
    "    <speak>\n" \o
    "      This is without prosody.\n" \o
    "      <prosody pitch=\"+6st\">This is speaking at +6 semitones pitch.</prosody>\n" \o
    "      <prosody pitch=\"foo\">This is speaking at normal pitch.</prosody>\n" \o
    "      <prosody pitch=\"high\">This is speaking at high pitch.</prosody>\n" \o
    "      <prosody pitch=\"+0st\">This is speaking at +0 semitones pitch.</prosody>\n" \o
    "      <prosody pitch=\"medium\">This is speaking at medium pitch.</prosody>\n" \o
    "      <prosody pitch=\"default\">This is speaking at default pitch.</prosody>\n" \o
    "      <prosody pitch=\"+200%\">This is speaking at +200% pitch.</prosody>\n" \o
    "      <prosody pitch=\"+12st\">This is speaking at +12 semitones pitch.</prosody>\n" \o
    "      <prosody pitch=\"x-high\">This is speaking at x-high pitch.</prosody>\n" \o
    "      <prosody pitch=\"-6st\">This is speaking at -6 semitones pitch.</prosody>\n" \o
    "      <prosody pitch=\"low\">This is speaking at low pitch.</prosody>\n" \o
    "      <prosody pitch=\"-12st\">This is speaking at -12 semitones pitch.</prosody>\n" \o
    "      <prosody pitch=\"x-low\">This is speaking at x-low pitch.</prosody>\n" \o
    "    </speak>\n" \o
    "  "

(***************************************************************************)
(* The examples object and property access on it                           *)
(***************************************************************************)
\* The properties of the examples literal as written: each key with the
\* template its value is made from.
examplesSource ==
    << [key |-> "break",     template |-> template_break],
       [key |-> "say-as",    template |-> template_say_as],
       [key |-> "audio",     template |-> template_audio],
       [key |-> "paragraph", template |-> template_paragraph],
       [key |-> "sub",       template |-> template_sub],
       [key |-> "prosody",   template |-> template_prosody],
       [key |-> "emphasis",  template |-> template_emphasis],
       [key |-> "speed",     template |-> template_speed],
       [key |-> "volume",    template |-> template_volume],
       [key |-> "pitch",     template |-> template_pitch] >>

\* An object is the sequence of its own [key, value] properties in insertion
\* order; no key of examples is an integer index, so that is the order
\* Object.keys reports.  Each value is what ssml returns for its template,
\* none of which has an input.
examplesLiteral ==
    [i \in DOMAIN examplesSource |->
        [key |-> examplesSource[i].key,
         value |-> Str(ssml(<<examplesSource[i].template>>, <<>>).value)]]

\* Object.keys(obj)
ObjectKeys(obj) == [i \in DOMAIN obj |-> obj[i].key]

hasOwnProperty(obj, key) == \E i \in DOMAIN obj : obj[i].key = key

\* The methods every object literal inherits from Object.prototype.
ObjectPrototypeMethods ==
    {"constructor", "hasOwnProperty", "isPrototypeOf", "propertyIsEnumerable",
     "toLocaleString", "toString", "valueOf"}

\* obj[element]: the own property named ToString(element), else the
\* inherited one, else undefined.
getProperty(obj, element) ==
    LET key == JsToString(element)
    IN  IF hasOwnProperty(obj, key)
        THEN obj[CHOOSE i \in DOMAIN obj : obj[i].key = key].value
        ELSE IF key \in ObjectPrototypeMethods THEN Function(key)
        ELSE Undefined

(***************************************************************************)
(* Actions, Parameters, baseResponses, elements, completeResponses         *)
(***************************************************************************)
Actions ==
    [TELL_EXAMPLE |-> "tell.example",
     UNRECOGNIZED_DEEP_LINK |-> "input.unknown",
     WELCOME |-> "input.welcome"]

Parameters == [ELEMENT |-> "element"]

baseResponses == [askExample |-> "Ask me for an example of a SSML element."]

\* array[i] for a 0-based index i: undefined outside the array.
arrayAt(array, i) == IF i + 1 \in DOMAIN array THEN Str(array[i + 1]) ELSE Undefined

\* array.slice(0, end): a negative end counts from the end of the array.
sliceFromStart(array, end) ==
    LET stop == IF end < 0 THEN Len(array) + end ELSE end
        last == IF stop < 0 THEN 0 ELSE IF stop > Len(array) THEN Len(array) ELSE stop
    IN  SubSeq(array, 1, last)

\* array.join(separator)
RECURSIVE join(_, _)
join(array, separator) ==
    IF array = <<>> THEN ""
    ELSE IF Len(array) = 1 THEN array[1]
    ELSE array[1] \o separator \o join(Tail(array), separator)

\* Variant of examplesList that slices to elements.length, so that the last
\* element is listed twice: C6 fails on it.
examplesListWholeSlice(elements_) ==
    "You can ask me about "
        \o join(sliceFromStart(elements_, Len(elements_)), ", ")
        \o ", and " \o JsToString(arrayAt(elements_, Len(elements_) - 1)) \o "."

\* completeResponses.examplesList
examplesList(elements_) ==
    "You can ask me about "
        \o join(sliceFromStart(elements_, Len(elements_) - 1), ", ")
        \o ", and " \o JsToString(arrayAt(elements_, Len(elements_) - 1)) \o "."

\* Variant of leadToExample without the ${element}: C2 fails on it.
leadToExampleUnnamed(element) == "Ok, here's an SSML example."

\* completeResponses.leadToExample
leadToExample(element) ==
    "Ok, here's an SSML example of " \o JsToString(element) \o "."

\* The string members of completeResponses.
buildCompleteResponses(elements_) ==
    [examplesList |-> examplesList(elements_),
     didNotUnderstand |->
        "Sorry, I didn't understand you. " \o baseResponses.askExample \o ".",
     welcome |->
        "Welcome! " \o baseResponses.askExample \o " "
            \o "You can say \"give me an example of the prosody element\"."]

(***************************************************************************)
(* Bounds                                                                  *)
(***************************************************************************)
\* The most properties of a drawn examples object.
MaxTopics == 3
\* The most characters of a drawn template call, fragments and inputs together.
MaxChars == 3
\* The most ${} inputs of a drawn template call.
MaxInputs == 1

(***************************************************************************)
(* State                                                                   *)
(***************************************************************************)
VARIABLES
    examples,           \* the examples object
    elements,           \* Object.keys(examples)
    completeResponses,  \* the string members of completeResponses
    app,                \* the DialogflowApp of the request served last
    previous,           \* the DialogflowApp of the request served before it
    template,           \* the template strings of a call of ssml
    inputs,             \* the inputs of a call of ssml
    result,             \* the outcome of that call
    pc                  \* "call" before a drawn computation runs, "done" after it

vars == <<examples, elements, completeResponses, app, previous,
          template, inputs, result, pc>>

moduleVars == <<examples, elements, completeResponses>>
ssmlVars == <<template, inputs, result>>

(***************************************************************************)
(* DialogflowApp, as far as the handlers use it                            *)
(***************************************************************************)
\* new DialogflowApp({ request, response }): the request's intent and
\* parameters, and what has been sent on the response.
DialogflowApp(request) ==
    [intent |-> request.intent, parameters |-> request.parameters, sent |-> <<>>]

\* No request served yet.
NoApp == [intent |-> "", parameters |-> [element |-> Undefined], sent |-> <<>>]

\* app.getArgument(name)
getArgument(app_, name) == app_.parameters[name]

\* app.buildRichResponse()
buildRichResponse == [items |-> <<>>]

\* richResponse.addSimpleResponse(value): the value handed over becomes the
\* next item.
addSimpleResponse(richResponse, value) ==
    [richResponse EXCEPT !.items = Append(@, value)]

\* app.ask(richResponse): one more response sent, asking for further input.
ask(app_, richResponse) ==
    [app_ EXCEPT !.sent = Append(@, [method |-> "ask", items |-> richResponse.items])]

(***************************************************************************)
(* actionMap: the three handlers                                           *)
(***************************************************************************)
\* actionMap.set(Actions.WELCOME, app => ...)
welcomeHandler(app_) ==
    LET richResponse ==
            addSimpleResponse(
                addSimpleResponse(buildRichResponse, Str(completeResponses.welcome)),
                Str(completeResponses.examplesList))
    IN  /\ app' = ask(app_, richResponse)
        /\ UNCHANGED moduleVars

\* Variant of the TELL_EXAMPLE handler without the return in its first
\* branch, which goes on to ask a second time: C4 fails on it.
tellExampleHandlerFallThrough(app_) ==
    LET element == getArgument(app_, Parameters.ELEMENT)
        notUnderstood ==
            addSimpleResponse(
                addSimpleResponse(buildRichResponse,
                                  Str(completeResponses.didNotUnderstand)),
                Str(completeResponses.examplesList))
        example ==
            addSimpleResponse(
                addSimpleResponse(buildRichResponse, Str(leadToExample(element))),
                getProperty(examples, element))
    IN  /\ app' = IF ~Truthy(element)
                  THEN ask(ask(app_, notUnderstood), example)
                  ELSE ask(app_, example)
        /\ UNCHANGED moduleVars

\* Variant of the TELL_EXAMPLE handler that deletes the example it has
\* sent from the examples object: C10 fails on it.
tellExampleHandlerConsuming(app_) ==
    LET element == getArgument(app_, Parameters.ELEMENT)
        notUnderstood ==
            addSimpleResponse(
                addSimpleResponse(buildRichResponse,
                                  Str(completeResponses.didNotUnderstand)),
                Str(completeResponses.examplesList))
        example ==
            addSimpleResponse(
                addSimpleResponse(buildRichResponse, Str(leadToExample(element))),
                getProperty(examples, element))
    IN  /\ app' = IF ~Truthy(element)
                  THEN ask(app_, notUnderstood)
                  ELSE ask(app_, example)
        /\ examples' = IF ~Truthy(element) THEN examples
                       ELSE SelectSeq(examples, LAMBDA p : p.key # JsToString(element))
        /\ UNCHANGED <<elements, completeResponses>>

\* actionMap.set(Actions.TELL_EXAMPLE, app => ...)
tellExampleHandler(app_) ==
    LET element == getArgument(app_, Parameters.ELEMENT)
        notUnderstood ==
            addSimpleResponse(
                addSimpleResponse(buildRichResponse,
                                  Str(completeResponses.didNotUnderstand)),
                Str(completeResponses.examplesList))
        example ==
            addSimpleResponse(
                addSimpleResponse(buildRichResponse, Str(leadToExample(element))),
                getProperty(examples, element))
    IN  /\ app' = IF ~Truthy(element)
                  THEN ask(app_, notUnderstood)     \* return app.ask(...)
                  ELSE ask(app_, example)
        /\ UNCHANGED moduleVars

\* actionMap.set(Actions.UNRECOGNIZED_DEEP_LINK, app => ...)
unrecognizedDeepLinkHandler(app_) ==
    LET richResponse ==
            addSimpleResponse(
                addSimpleResponse(buildRichResponse,
                                  Str(completeResponses.didNotUnderstand)),
                Str(completeResponses.examplesList))
    IN  /\ app' = ask(app_, richResponse)
        /\ UNCHANGED moduleVars

\* app.handleRequest(actionMap): the handler stored under the app's intent.
handleRequest(app_) ==
    CASE app_.intent = Actions.WELCOME -> welcomeHandler(app_)
      [] app_.intent = Actions.TELL_EXAMPLE -> tellExampleHandler(app_)
      [] app_.intent = Actions.UNRECOGNIZED_DEEP_LINK -> unrecognizedDeepLinkHandler(app_)

\* ssmlExamples: one request served from start to end.
ssmlExamples(request) ==
    /\ pc = "serve"
    /\ handleRequest(DialogflowApp(request))
    /\ previous' = app
    /\ UNCHANGED <<ssmlVars, pc>>

(***************************************************************************)
(* Requests                                                                *)
(***************************************************************************)
\* The element parameter of a request: absent (undefined or null), empty, a
\* key of examples, or another name.
ElementValues ==
    {Undefined, Null, Str("")}
        \cup {Str(examplesSource[i].key) : i \in DOMAIN examplesSource}
        \cup {Str("toString"), Str("whisper")}

Request(intent, element) == [intent |-> intent, parameters |-> [element |-> element]]

WelcomeRequest ==
    \E element \in ElementValues : ssmlExamples(Request(Actions.WELCOME, element))

TellExampleRequest ==
    \E element \in ElementValues : ssmlExamples(Request(Actions.TELL_EXAMPLE, element))

UnrecognizedRequest ==
    \E element \in ElementValues :
        ssmlExamples(Request(Actions.UNRECOGNIZED_DEEP_LINK, element))

\* The state once the module has been loaded.
Init ==
    /\ examples = examplesLiteral
    /\ elements = ObjectKeys(examples)
    /\ completeResponses = buildCompleteResponses(elements)
    /\ app = NoApp
    /\ previous = NoApp
    /\ template = <<"">>
    /\ inputs = <<>>
    /\ result = Returned("")
    /\ pc = "serve"

Next == WelcomeRequest \/ TellExampleRequest \/ UnrecognizedRequest

Spec == Init /\ [][Next]_vars

(***************************************************************************)
(* The composed texts over drawn examples objects                          *)
(***************************************************************************)
\* The examples objects drawn: the one of the source, and every object of 1
\* to MaxTopics of its properties, in any order.
DrawnExamples ==
    LET literal == examplesLiteral
        pool == DOMAIN literal
        picks == UNION {[1..n -> pool] : n \in 1..MaxTopics}
        distinct(f) == \A i, j \in DOMAIN f : i # j => f[i] # f[j]
    IN  {literal}
            \cup {[i \in DOMAIN f |-> literal[f[i]]] : f \in {g \in picks : distinct(g)}}

NoResponses == [examplesList |-> "", didNotUnderstand |-> "", welcome |-> ""]

InitCatalog ==
    /\ examples \in DrawnExamples
    /\ elements = <<>>
    /\ completeResponses = NoResponses
    /\ app = NoApp
    /\ previous = NoApp
    /\ template = <<"">>
    /\ inputs = <<>>
    /\ result = Returned("")
    /\ pc = "call"

\* const elements = Object.keys(examples); const completeResponses = {...}
loadResponses ==
    /\ pc = "call"
    /\ elements' = ObjectKeys(examples)
    /\ completeResponses' = buildCompleteResponses(elements')
    /\ pc' = "done"
    /\ UNCHANGED <<examples, app, previous, ssmlVars>>

NextCatalog == loadResponses

SpecCatalog == InitCatalog /\ [][NextCatalog]_vars

(***************************************************************************)
(* ssml over drawn calls                                                   *)
(***************************************************************************)
\* The characters drawn: a plain one, two of whitespace, the four reserved.
Chars == {"a", " ", "\n", "<", ">", "&", "\""}

\* The strings over Chars of at most n characters.
RECURSIVE StringsUpTo(_)
StringsUpTo(n) ==
    IF n = 0 THEN {""}
    ELSE LET shorter == StringsUpTo(n - 1)
         IN  shorter \cup {s \o c : s \in shorter, c \in Chars}

\* The ways to cut a string of len characters into 2 * n + 1 pieces: the
\* ends of all pieces but the last, in order.
Cuts(n, len) ==
    {cuts \in [1..(2 * n) -> 0..len] :
        \A i \in 1..(2 * n - 1) : cuts[i] <= cuts[i + 1]}

\* Piece j of s cut at cuts.
piece(s, cuts, j) ==
    SubSeq(s, IF j = 1 THEN 1 ELSE cuts[j - 1] + 1,
              IF j = Len(cuts) + 1 THEN Len(s) ELSE cuts[j])

\* What a ${} may hold for the drawn string s: the string, and for no
\* characters also undefined.
InputValues(s) == IF s = "" THEN {Str(""), Undefined} ELSE {Str(s)}

\* A tagged template with n inputs passes n + 1 template strings.  The
\* pieces of s are those of the literal in its order: piece 1, ${piece 2},
\* piece 3, ...
CallsOf(s, cuts) ==
    LET n == Len(cuts) \div 2
        values(i) == InputValues(piece(s, cuts, 2 * i))
    IN  {[template |-> [i \in 1..(n + 1) |-> piece(s, cuts, 2 * i - 1)], inputs |-> v] :
            v \in {w \in [1..n -> UNION {values(i) : i \in 1..n}] :
                        \A i \in 1..n : w[i] \in values(i)}}

\* The call of the @example of ssml's comment.
documentedCall ==
    [template |-> <<"\n  <speak>\n    ", "\n  </speak>\n">>,
     inputs |-> <<Str("\"1 + 1 > 1\"")>>]

\* The same value between the fragments "<speak>" and "</speak>".
fragmentCall ==
    [template |-> <<"<speak>", "</speak>">>, inputs |-> <<Str("\"1 + 1 > 1\"")>>]

\* The calls that build the examples object.
examplesCalls ==
    {[template |-> <<examplesSource[i].template>>, inputs |-> <<>>] :
        i \in DOMAIN examplesSource}

\* The calls written out.
WrittenCalls == {documentedCall, fragmentCall} \cup examplesCalls

\* A call is a written one, or a string of at most MaxChars characters cut
\* into the pieces of a literal with at most MaxInputs inputs.
InitSsml ==
    /\ examples = examplesLiteral
    /\ elements = ObjectKeys(examples)
    /\ completeResponses = buildCompleteResponses(elements)
    /\ app = NoApp
    /\ previous = NoApp
    /\ \/ \E call \in WrittenCalls :
            /\ template = call.template
            /\ inputs = call.inputs
       \/ \E s \in StringsUpTo(MaxChars), n \in 0..MaxInputs :
            \E cuts \in Cuts(n, Len(s)) :
                \E call \in CallsOf(s, cuts) :
                    /\ template = call.template
                    /\ inputs = call.inputs
    /\ result = Returned("")
    /\ pc = "call"

\* ssml`...`: the call runs to its outcome.
callSsml ==
    /\ pc = "call"
    /\ result' = ssml(template, inputs)
    /\ pc' = "done"
    /\ UNCHANGED <<moduleVars, app, previous, template, inputs>>

NextSsml == callSsml

SpecSsml == InitSsml /\ [][NextSsml]_vars

(***************************************************************************)
(* Claims about the handlers (Spec)                                        *)
(***************************************************************************)
\* The apps of the requests served so far, of which the state keeps two.
Served == {a \in {app, previous} : a.intent # ""}

elementOf(a) == a.parameters.element

\* The one response [didNotUnderstand, examplesList], sent with ask.
NotUnderstoodSent ==
    << [method |-> "ask",
        items |-> <<Str(completeResponses.didNotUnderstand),
                    Str(completeResponses.examplesList)>>] >>

\* s contains sub.
contains(s, sub) == \E i \in 1..Len(s) : occursAt(s, sub, i)

namesOwnKey(a) ==
    /\ elementOf(a).type = "string"
    /\ elementOf(a).value # ""
    /\ hasOwnProperty(examples, elementOf(a).value)

namesNoKey(a) ==
    /\ elementOf(a).type = "string"
    /\ elementOf(a).value # ""
    /\ ~hasOwnProperty(examples, elementOf(a).value)

absentOrEmpty(a) == elementOf(a) \in {Undefined, Null, Str("")}

\* C1: a TELL_EXAMPLE request whose element is present and non-empty but is
\* no key of examples is answered with exactly [didNotUnderstand,
\* examplesList], sent with ask.
C1_UnknownTopicNotUnderstood ==
    \A a \in Served :
        a.intent = Actions.TELL_EXAMPLE /\ namesNoKey(a) => a.sent = NotUnderstoodSent

\* C2: a TELL_EXAMPLE request whose element is a key T of examples is
\* answered with one response of exactly two items: the lead-in, which
\* contains T, and then the value examples holds under T.
C2_KnownTopicLeadInThenDocument ==
    \A a \in Served :
        a.intent = Actions.TELL_EXAMPLE /\ namesOwnKey(a) =>
            LET T == elementOf(a).value
            IN  /\ Len(a.sent) = 1
                /\ Len(a.sent[1].items) = 2
                /\ a.sent[1].items[1] = Str(leadToExample(Str(T)))
                /\ contains(a.sent[1].items[1].value, T)
                /\ \E i \in DOMAIN examples :
                      /\ examples[i].key = T
                      /\ examples[i].value.type = "string"
                      /\ a.sent[1].items[2] = examples[i].value

C2_Witness ==
    /\ app.intent = Actions.TELL_EXAMPLE
    /\ elementOf(app) = Str("say-as")
    /\ Len(app.sent) = 1
    /\ contains(app.sent[1].items[2].value, "<say-as interpret-as=\"cardinal\">")

\* C3: a TELL_EXAMPLE request whose element is absent or empty is answered
\* with exactly [didNotUnderstand, examplesList], which is also the answer
\* to every UNRECOGNIZED_DEEP_LINK request.
C3_AbsentTopicAsUnrecognized ==
    /\ \A a \in Served :
          a.intent = Actions.TELL_EXAMPLE /\ absentOrEmpty(a) =>
              /\ a.sent = NotUnderstoodSent
              /\ Len(a.sent[1].items) = 2
    /\ \A a, b \in Served :
          /\ a.intent = Actions.TELL_EXAMPLE
          /\ absentOrEmpty(a)
          /\ b.intent = Actions.UNRECOGNIZED_DEEP_LINK
          => a.sent = b.sent

C3_Witness ==
    /\ app.intent = Actions.TELL_EXAMPLE
    /\ elementOf(app) = Str("")
    /\ previous.intent = Actions.UNRECOGNIZED_DEEP_LINK
    /\ app.sent = previous.sent
    /\ Len(app.sent) = 1

\* C4: every request served, whatever its intent and element, was answered
\* with exactly one response, and that one sent with ask.
C4_OneAskPerRequest ==
    \A a \in Served :
        /\ Len(a.sent) = 1
        /\ a.sent[1].method = "ask"

C4_Witness ==
    /\ app.intent = Actions.TELL_EXAMPLE
    /\ elementOf(app) = Str("whisper")
    /\ previous.intent = Actions.WELCOME
    /\ Len(app.sent) = 1
    /\ Len(previous.sent) = 1

\* Two served requests of the same intent and element got the same answer.
RepliesAgree ==
    \A a, b \in Served :
        a.intent = b.intent /\ a.parameters = b.parameters => a.sent = b.sent

\* C10: no step changes examples, elements or completeResponses, and after
\* every step any two requests served with the same intent and element have
\* the same answer.
C10_RequestsLeaveModuleUnchanged ==
    [][moduleVars' = moduleVars /\ RepliesAgree']_vars

C10_Witness ==
    /\ app.intent = Actions.TELL_EXAMPLE
    /\ elementOf(app) = Str("pitch")
    /\ previous.intent = app.intent
    /\ previous.parameters = app.parameters
    /\ previous.sent = app.sent
    /\ Len(app.sent) = 1

(***************************************************************************)
(* Claims about the composed list (SpecCatalog)                            *)
(***************************************************************************)
\* The indices at which sub occurs in s.
occurrences(s, sub) == {i \in 1..Len(s) : occursAt(s, sub, i)}

\* The keys of examples with ", " before each but the first and the last,
\* and ", and " before the last of two or more.
listedKeys ==
    LET n == Len(examples)
        item(i) ==
            (IF i = 1 THEN "" ELSE IF i = n THEN ", and " ELSE ", ") \o examples[i].key
    IN  concat([i \in 1..n |-> item(i)], 1, n)

\* C6: examplesList contains every key of examples exactly once, in the
\* order of the keys; with two or more keys it is the lead "You can ask me
\* about ", the keys but the last joined with ", ", then ", and " and the
\* last key, then a period.
C6_ListEnumeratesEveryTopicOnce ==
    pc = "done" =>
        LET text == completeResponses.examplesList
            n == Len(examples)
            at(i) == occurrences(text, examples[i].key)
        IN  /\ \A i \in 1..n : Cardinality(at(i)) = 1
            /\ \A i, j \in 1..n :
                  i < j => \A p \in at(i), q \in at(j) : p < q
            /\ n >= 2 => text = "You can ask me about " \o listedKeys \o "."

C6_Witness ==
    /\ pc = "done"
    /\ elements = [i \in DOMAIN examplesSource |-> examplesSource[i].key]
    /\ Len(elements) > MaxTopics
    /\ contains(completeResponses.examplesList, "volume, and pitch.")

entityOf(c) ==
    CASE c = "&" -> "&amp;"
      [] c = "<" -> "&lt;"
      [] c = ">" -> "&gt;"
      [] c = "\"" -> "&quot;"
      [] OTHER -> c

\* s with each of its characters replaced by its entity, once.
eachCharacterEscaped(s) == concat([i \in 1..Len(s) |-> entityOf(charAt(s, i))], 1, Len(s))

\* The template strings as they are, with the strings between them.
interleave(strings, between) ==
    concat([k \in 1..(2 * Len(strings) - 1) |->
               IF k % 2 = 1 THEN strings[(k + 1) \div 2] ELSE between[k \div 2]],
           1, 2 * Len(strings) - 1)

\* The template strings with the inputs between them, each input escaped.
escapedOnce ==
    interleave(template, [i \in DOMAIN inputs |-> eachCharacterEscaped(inputs[i].value)])

\* The template strings with the inputs between them, as they are.
putTogether == interleave(template, [i \in DOMAIN inputs |-> inputs[i].value])

ReservedChars == {"&", "<", ">", "\""}

\* C5: the string returned is the template strings, unescaped, with each
\* input between them in which every &, <, > and " has been replaced by its
\* entity exactly once, then normalized; the documented calls return
\* <speak>&quot;1 + 1 &gt; 1&quot;</speak>.
C5_EachReservedCharacterEscapedOnce ==
    pc = "done" /\ ~result.threw =>
        /\ result.value = normalize(escapedOnce)
        /\ [template |-> template, inputs |-> inputs] \in {documentedCall, fragmentCall}
              => result.value = "<speak>&quot;1 + 1 &gt; 1&quot;</speak>"

C5_Witness ==
    /\ pc = "done"
    /\ ~result.threw
    /\ Len(inputs) = 1
    /\ inputs[1] = Str("&<")
    /\ template = <<"<", "">>
    /\ result.value = "<&amp;&lt;"

\* s is trimmed, its whitespace is single spaces, and no space stands
\* before a < or after a >.
isNormalized(s) ==
    /\ s # "" => charAt(s, 1) \notin WhiteSpace /\ charAt(s, Len(s)) \notin WhiteSpace
    /\ \A i \in 1..Len(s) :
          charAt(s, i) \in WhiteSpace =>
              /\ charAt(s, i) = " "
              /\ i > 1 => charAt(s, i - 1) \notin WhiteSpace
    /\ ~contains(s, " <")
    /\ ~contains(s, "> ")

\* C8: the string returned is trimmed, has no two whitespace characters in
\* a row and no whitespace but the space, no space before a < and none
\* after a >; when the inputs hold no reserved character and the template
\* strings and inputs put together are already of this form, they are what
\* is returned.
C8_OutputIsNormalized ==
    pc = "done" /\ ~result.threw =>
        /\ isNormalized(result.value)
        /\ (/\ \A i \in DOMAIN inputs :
                  \A c \in ReservedChars : ~contains(inputs[i].value, c)
            /\ isNormalized(putTogether))
              => result.value = putTogether

C8_Witness ==
    /\ pc = "done"
    /\ ~result.threw
    /\ Len(inputs) = 1
    /\ contains(putTogether, ">\n  ")
    /\ contains(inputs[1].value, " ")
    /\ result.value # putTogether
    /\ isNormalized(result.value)

\* C9: a call of ssml with one more template string than inputs never
\* throws, whatever its inputs hold.
C9_NoErrorOutcome ==
    pc = "done" /\ Len(template) = Len(inputs) + 1 => ~result.threw

=============================================================================
